---- MODULE Spec2Model ----
(***************************************************************************)
(* Device simulation kernel of the hydrogen Python examples:               *)
(*   examples/python/advanced_camera.py      AdvancedCamera                *)
(*   examples/python/custom_telescope.py     CustomTelescope               *)
(*   examples/python/custom_switch.py        MyCustomSwitch                *)
(*   examples/python/custom_filter_wheel.py  CustomFilterWheel             *)
(*                                                                         *)
(* One device is modelled at a time (variable `device`, fixed by Init).    *)
(* Three contexts act on it: the caller of start()/stop() (`lpc`), the    *)
(* command dispatcher (`cmd`), and the device's daemon threads (`loops`,   *)
(* `exps`).  Time is not measured: a sleep ends at some later step, and a  *)
(* bounded join ends when the joined thread has exited or when its timeout *)
(* expires, whichever comes first in the schedule.                         *)
(* Temperatures are fixed-point, in 1/100 degree.                          *)
(***************************************************************************)
EXTENDS Integers, Sequences, FiniteSets, TLC

\* ------------------------------------------------------------ bounds
MaxLoops == 2        \* background-loop thread objects that exist at once
MaxExp == 2          \* exposure thread objects that exist at once
MaxDuration == 1     \* longest requested exposure, in 0.5 s progress steps
MaxDithers == 7      \* auto_dither calls in one behaviour
MaxPosition == 3     \* positions of a movement device: 0..MaxPosition
MaxProgress == 3     \* progress reports of one solve job
MaxRequests == 4     \* solve requests in one behaviour

\* ------------------------------------------------------------ program constants
width == 1936
height == 1096
AmbientTemp == 2000       \* ambient_temp = 20.0
InitialTemp == 2000       \* cooler_temp = sensor_temp = 20.0
MinCoolerTemp == -3000    \* max(-30, ...)
MaxCoolerTemp == 5000     \* min(50, ...)
MaxPower == 100           \* min(100, ...)
HoldingPower == 10        \* self.cooler_power = 10
TempTolerance == 10       \* abs(temp_diff) > 0.1
RelaxPercent == 5         \* (ambient_temp - sensor_temp) * 0.05

Devices == {"camera", "telescope", "switch", "filterwheel"}
MoverKinds == {"focuser", "filterwheel", "rotator"}
LoopIds == 1..MaxLoops
ExpIds == 1..MaxExp
None == 0                 \* a thread attribute that is None (or not yet set)
NoTemp == 9999            \* SET_COOLER without a temperature (temperature=None)

VARIABLES
    device,            \* which example device this behaviour is about
    \* --- lifecycle (all devices)
    running,           \* self.running / self._is_running
    connected,         \* camera property "connected"
    update_thread,     \* self.update_thread / custom_tracking_thread / _custom_thread
    loops,             \* background-loop threads: slot -> [pc, en, temp_diff]
    lpc,               \* position of the caller of start()/stop()
    lifecycle,         \* "new", "started", or "stopped" (stop() returned, no start() since)
    stopFrom,          \* lifecycle at the time the running/last stop() was called
    stopSnap,          \* update_thread at the time the running/last stop() was called
    stopResult,        \* what the last stop() gave its caller: "none", "ok", "error"
    startResult,       \* what the last start() returned: "none", "true", "false"
    joinTimedOut,      \* the last stop() had a join end by timeout, thread alive
    lateWrite,         \* a daemon thread did set_property/send_event after stop() returned
    \* --- camera exposure
    is_exposing, image_ready, image_data, exposure_time,
    props,             \* property store: "exposing", "image_ready"
    exposure_thread,   \* self.exposure_thread
    exposure_lock,     \* holder of self.exposure_lock: "free", "cmd", "life"
    exps,              \* exposure threads: slot -> record
    cmd,               \* command dispatcher context: [pc, arg, ret]
    response,          \* response["status"] of the last command
    \* --- camera cooling
    cooler_enabled, cooler_temp, sensor_temp, cooler_power,
    coolProps,         \* property store: sensor_temperature, cooler_power, ...
    coolHist,          \* SET_COOLER calls so far: "fresh" (none), "calling"/"cooling"
                       \* (only set_cooler(True, -10.0): running/returned), "other"
    \* --- the other example devices
    guider,            \* PiGuider: dither cursor, calibration monitor thread
    switch,            \* MyCustomSwitch: self.temperature and the property "temperature"
    mover,             \* focuser / filter wheel / rotator: kind -> movement state machine
    solver,            \* plate solver: state, progress, job, reply to the last solve()
    validation,        \* the last TypeValidator call: function, arguments, outcome
    \* --- the programs around the devices
    obs,               \* CompleteObservatory: devices, main thread, weather monitor
    testValidator      \* scripts/validate_device_lifecycle_tests.py: one run_validation

lifeVars == <<running, connected, update_thread, lpc, lifecycle, stopFrom, stopSnap,
              stopResult, startResult, joinTimedOut>>
expVars == <<is_exposing, image_ready, image_data, exposure_time, props,
             exposure_thread, exps>>
coolVars == <<cooler_enabled, cooler_temp, sensor_temp, cooler_power, coolProps>>
simVars == <<mover, solver, validation>>
toolVars == <<obs, testValidator>>
auxVars == <<guider, switch, simVars, toolVars>>
coreVars == <<device, lifeVars, loops, lateWrite, expVars, exposure_lock, cmd, response,
              coolVars, coolHist>>
vars == <<coreVars, auxVars>>

\* ------------------------------------------------------------ helpers
Abs(x) == IF x < 0 THEN -x ELSE x
Sign(x) == IF x < 0 THEN -1 ELSE IF x > 0 THEN 1 ELSE 0
Min(a, b) == IF a < b THEN a ELSE b
Max(a, b) == IF a > b THEN a ELSE b
\* float product rounded toward zero to the fixed-point grid
TruncDiv(a, b) == Sign(a) * (Abs(a) \div b)

\* get_last_solution(): exists is false for None and for an empty dict;
\* hasSuccess: the key "success" is present; ra, starCount: two of its fields
NoSolution == [exists |-> FALSE, hasSuccess |-> FALSE, success |-> FALSE,
               ra |-> 0, starCount |-> 0]
SolvedSolutions ==
    {[exists |-> TRUE, hasSuccess |-> TRUE, success |-> TRUE, ra |-> ra, starCount |-> n] :
       ra \in {0, 12}, n \in {0, 40}}
FailedSolutions ==
    {NoSolution,
     [NoSolution EXCEPT !.exists = TRUE],
     [NoSolution EXCEPT !.exists = TRUE, !.hasSuccess = TRUE],
     [NoSolution EXCEPT !.exists = TRUE, !.ra = 12, !.starCount = 40]}
\* get_solution_as_dict() returned None (or has not been called)
\* emergency_shutdown of one caller: at = the next protective action (0: not
\* running), attempted = the devices whose action was called in this run
NoShutdown == [at |-> 0, attempted |-> {}, finished |-> FALSE]
\* TestValidator before run_validation: the *_ok locals, self.results
NoValidation ==
    [pc |-> "file_structure", file_structure_ok |-> FALSE, test_content_ok |-> FALSE,
     cmake_config_ok |-> FALSE, xmake_config_ok |-> FALSE,
     build_checks |-> {}, test_execution |-> {},
     overall_status |-> "unknown", returned |-> "none", exit_code |-> -1]
NoDict == [populated |-> FALSE, ra_hours |-> 0, stars_detected |-> 0]

NoLoop == [pc |-> "none", en |-> FALSE, temp_diff |-> 0, scen |-> FALSE]
\* aborted: "no", or the phase the thread was in when abort_exposure cleared
\* is_exposing for its job: "exposing" or "readout"
\* remaining: exposure_time - (time.time() - start_time), in 0.5 s steps
\* ev:        the events the thread has emitted for its job, in order
\* nAborted:  the EXPOSURE_ABORTED events the command context has emitted for the job
\* abortedFirst: EXPOSURE_ABORTED was emitted before the thread's EXPOSURE_STARTED
NoExp == [pc |-> "none", remaining |-> 0, ev |-> <<>>, aborted |-> "no",
          nAborted |-> 0, abortedFirst |-> FALSE]

\* threading.Thread.is_alive()
LoopAlive(t) == loops[t].pc \notin {"none", "done"}
ExpAlive(t) == exps[t].pc \notin {"none", "done"}

\* A slot is a thread object.  One that has finished is kept (pc "done") only
\* while self.update_thread / self.exposure_thread still refers to it; otherwise
\* nothing refers to it and its slot is empty again (pc "none").
FreeLoops == {t \in LoopIds : ~LoopAlive(t)}
FreeExps == {t \in ExpIds : ~ExpAlive(t)}
FirstOf(S) == CHOOSE t \in S : \A u \in S : t <= u

Init ==
    /\ device \in Devices
    /\ running = FALSE
    /\ connected = FALSE
    /\ update_thread = None
    /\ loops = [t \in LoopIds |-> NoLoop]
    /\ lpc = "idle"
    /\ lifecycle = "new"
    /\ stopFrom = "new"
    /\ stopSnap = None
    /\ stopResult = "none"
    /\ startResult = "none"
    /\ joinTimedOut = FALSE
    /\ lateWrite = FALSE
    /\ is_exposing = FALSE
    /\ image_ready = FALSE
    /\ image_data = FALSE
    /\ exposure_time = 0
    /\ props = [exposing |-> FALSE, image_ready |-> FALSE]
    /\ exposure_thread = None
    /\ exposure_lock = "free"
    /\ exps = [t \in ExpIds |-> NoExp]
    /\ cmd = [pc |-> "idle", arg |-> 0, ret |-> "none"]
    /\ response = "UNKNOWN"
    /\ cooler_enabled = FALSE
    /\ cooler_temp = InitialTemp
    /\ sensor_temp = InitialTemp
    /\ cooler_power = 0
    /\ coolProps = [sensor_temperature |-> InitialTemp, cooler_power |-> 0,
                    cooler_enabled |-> FALSE, cooler_temperature |-> InitialTemp]
    /\ coolHist = "fresh"
    /\ guider = [dither_index |-> 0, used |-> <<>>, amount |-> 0, dithered |-> "none",
                 calibrationState |-> "IDLE", state |-> "IDLE", monitor |-> "none",
                 nStartGuiding |-> 0]
    /\ switch = [temperature |-> 20, property |-> 20]
    /\ mover = [k \in MoverKinds |->
                 [position |-> 0, target |-> 0, state |-> "IDLE", outcome |-> "none",
                  frozen |-> 0, reply |-> "none"]]
    /\ solver = [state |-> "IDLE", progress |-> 0, job |-> 0, requests |-> 0,
                 reply |-> "none", solving |-> FALSE, seen |-> "none",
                 lastSolution |-> NoSolution, asDict |-> NoDict]
    /\ validation = [fn |-> "none", v |-> 0, lo |-> 0, hi |-> 0,
                     raised |-> FALSE, value |-> 0]
    /\ obs = [devices |-> {}, running |-> FALSE, weather_safe |-> TRUE,
              main |-> "new", monitor |-> "none", calling |-> FALSE, found |-> "none",
              opened |-> FALSE, stopped |-> FALSE,
              shutdown |-> [who \in {"main", "monitor"} |-> NoShutdown]]
    /\ testValidator = NoValidation

\* ------------------------------------------------------------ start()
\* The C++ base class's start(): succeeds or fails.
BaseStartResults == BOOLEAN

\* CustomFilterWheel.start() starts its thread before calling the base class;
\* the other devices start theirs only if the base class's start() succeeded.
StartsThreadFirst(d) == d = "filterwheel"

\* sleep-then-work loops (camera, telescope) and work-then-sleep loops (switch, filter wheel)
SleepsFirst(d) == d \in {"camera", "telescope"}

Start ==
    /\ lpc = "idle"
    /\ \E ok \in BaseStartResults :
         LET spawn == ok \/ StartsThreadFirst(device)
             t == FirstOf(FreeLoops)
         IN  /\ spawn => FreeLoops # {}
             /\ startResult' = IF ok THEN "true" ELSE "false"
             /\ IF spawn
                  THEN /\ running' = TRUE
                       /\ update_thread' = t
                       /\ lateWrite' = FALSE
                       /\ stopFrom' = "new"
                       /\ stopSnap' = None
                       /\ stopResult' = "none"
                       /\ joinTimedOut' = FALSE
                       /\ loops' = [u \in LoopIds |->
                                     IF u = t THEN [NoLoop EXCEPT !.pc = "check"]
                                     ELSE IF LoopAlive(u) THEN loops[u] ELSE NoLoop]
                       /\ lifecycle' = "started"
                  ELSE UNCHANGED <<running, update_thread, loops, lifecycle, lateWrite,
                                   stopFrom, stopSnap, stopResult, joinTimedOut>>
             /\ connected' = IF ok /\ device = "camera" THEN TRUE ELSE connected
    /\ UNCHANGED <<device, auxVars, lpc, expVars, exposure_lock, cmd, response, coolVars, coolHist>>


\* ------------------------------------------------------------ stop()
\* The guard in front of the join of the background loop:
\*   camera, telescope, filter wheel:  if thread and thread.is_alive()
\*   switch:                           if hasattr(self, 'update_thread')
\* a stop() that joins without a guard
JoinUnguarded == TRUE

JoinGuard ==
    IF device = "switch"
      THEN update_thread # None
      ELSE update_thread # None /\ LoopAlive(update_thread)

\* stop(): self.running = False
Stop_Begin ==
    /\ lpc = "idle"
    /\ lpc' = "stop_guard"
    /\ running' = FALSE
    /\ stopFrom' = lifecycle
    /\ stopSnap' = update_thread
    /\ stopResult' = "none"
    /\ startResult' = "none"
    /\ joinTimedOut' = FALSE
    /\ UNCHANGED <<device, auxVars, connected, update_thread, lifecycle, loops,
                   lateWrite, expVars, exposure_lock, cmd, response, coolVars, coolHist>>

AfterLoopJoin == IF device = "camera" THEN "stop_lock" ELSE "stop_fin"

\* stop(): the guard; a join on a missing thread object raises out of stop()
Stop_Guard ==
    /\ lpc = "stop_guard"
    /\ IF JoinGuard
         THEN IF update_thread = None
                THEN /\ lpc' = "idle"
                     /\ stopResult' = "error"
                ELSE /\ lpc' = "stop_join"
                     /\ UNCHANGED stopResult
         ELSE /\ lpc' = AfterLoopJoin
              /\ UNCHANGED stopResult
    /\ UNCHANGED <<device, auxVars, running, connected, update_thread, lifecycle, stopFrom, stopSnap,
                   startResult, joinTimedOut, loops, lateWrite, expVars, exposure_lock,
                   cmd, response, coolVars, coolHist>>

\* the sleep of each background loop and the timeout of the join in stop(), in 1/10 s
LoopSleep(d) ==
    CASE d = "camera" -> 10 [] d = "telescope" -> 50 [] d = "switch" -> 20
      [] d = "filterwheel" -> 20
JoinTimeout(d) ==
    CASE d = "camera" -> 20 [] d = "telescope" -> 20 [] d = "switch" -> 10
      [] d = "filterwheel" -> 20

\* the join of the background loop can time out: the thread is in a sleep that
\* is not shorter than the timeout
LoopOutlastsJoin ==
    /\ LoopAlive(update_thread)
    /\ loops[update_thread].pc = "sleep"
    /\ LoopSleep(device) >= JoinTimeout(device)

\* stop(): thread.join(timeout) returns: the thread has exited, or the timeout
\* expired with the thread still alive; join() returns None either way.
Stop_Join ==
    /\ lpc = "stop_join"
    /\ lpc' = AfterLoopJoin
    /\ \/ /\ ~LoopAlive(update_thread)
          /\ UNCHANGED joinTimedOut
       \/ /\ LoopOutlastsJoin
          /\ joinTimedOut' = TRUE
    /\ UNCHANGED <<device, auxVars, running, connected, update_thread, lifecycle, stopFrom, stopSnap,
                   stopResult, startResult, loops, lateWrite, expVars, exposure_lock,
                   cmd, response, coolVars, coolHist>>

\* AdvancedCamera.stop(): with self.exposure_lock: if thread and is_alive()
Stop_Lock ==
    /\ lpc = "stop_lock"
    /\ exposure_lock = "free"
    /\ IF exposure_thread # None /\ ExpAlive(exposure_thread)
         THEN /\ exposure_lock' = "life"
              /\ lpc' = "stop_join_exp"
         ELSE /\ UNCHANGED exposure_lock
              /\ lpc' = "stop_fin"
    /\ UNCHANGED <<device, auxVars, running, connected, update_thread, lifecycle, stopFrom, stopSnap,
                   stopResult, startResult, joinTimedOut, loops, lateWrite, expVars,
                   cmd, response, coolVars, coolHist>>

\* a join of the exposure thread without a timeout: it returns only when the
\* thread has exited
Stop_JoinExposureUnbounded ==
    /\ lpc = "stop_join_exp"
    /\ ~ExpAlive(exposure_thread)
    /\ lpc' = "stop_fin"
    /\ exposure_lock' = "free"
    /\ UNCHANGED <<device, auxVars, running, connected, update_thread, lifecycle, stopFrom, stopSnap,
                   stopResult, startResult, joinTimedOut, loops, lateWrite, expVars,
                   cmd, response, coolVars, coolHist>>

\* AdvancedCamera.stop(): self.exposure_thread.join(2.0), then the lock is released
Stop_JoinExposure ==
    /\ lpc = "stop_join_exp"
    /\ lpc' = "stop_fin"
    /\ exposure_lock' = "free"
    /\ \/ /\ ~ExpAlive(exposure_thread)
          /\ UNCHANGED joinTimedOut
       \/ /\ ExpAlive(exposure_thread)
          /\ joinTimedOut' = TRUE
    /\ UNCHANGED <<device, auxVars, running, connected, update_thread, lifecycle, stopFrom, stopSnap,
                   stopResult, startResult, loops, lateWrite, expVars,
                   cmd, response, coolVars, coolHist>>

\* what stop() gives its caller when it reaches its end: it returns None
\* whether or not a join timed out
StopOutcome(timedOut) == "ok"

\* super().stop() of the C++ base class: succeeds, also on a stopped device
BaseStop == "ok"

\* stop(): set_property("connected", False) (camera); super().stop(); return
Stop_Finish ==
    /\ lpc = "stop_fin"
    /\ lpc' = "idle"
    /\ connected' = IF device = "camera" THEN FALSE ELSE connected
    /\ lifecycle' = "stopped"
    /\ stopResult' = IF BaseStop = "ok" THEN StopOutcome(joinTimedOut) ELSE "error"
    /\ UNCHANGED <<device, auxVars, running, update_thread, stopFrom, stopSnap, startResult,
                   joinTimedOut, loops, lateWrite, expVars, exposure_lock,
                   cmd, response, coolVars, coolHist>>

\* ------------------------------------------------------------ background loops
\* a daemon thread calls set_property/send_event: late if stop() has returned
Late == lateWrite \/ lifecycle = "stopped"

\* while self.running:
Loop_Check(t) ==
    /\ loops[t].pc = "check"
    /\ loops' = [loops EXCEPT ![t].pc =
                   IF ~running THEN (IF t = update_thread THEN "done" ELSE "none")
                   ELSE IF SleepsFirst(device) THEN "sleep" ELSE "work"]
    /\ UNCHANGED <<device, auxVars, lifeVars, lateWrite, expVars, exposure_lock, cmd, response,
                   coolVars, coolHist>>

\* time.sleep(...) ends
Loop_Wake(t) ==
    /\ loops[t].pc = "sleep"
    /\ loops' = [loops EXCEPT ![t].pc =
                   IF ~SleepsFirst(device) THEN "check"
                   ELSE IF device = "camera" THEN "read" ELSE "work"]
    /\ UNCHANGED <<device, auxVars, lifeVars, lateWrite, expVars, exposure_lock, cmd, response,
                   coolVars, coolHist>>

\* telescope custom_task / switch update_temp / filter wheel _monitor_temperature:
\* the body of one iteration (send_event, set_property); the values written are random
Loop_Work(t) ==
    /\ loops[t].pc = "work"
    /\ device # "camera"
    /\ loops' = [loops EXCEPT ![t].pc = IF SleepsFirst(device) THEN "check" ELSE "sleep"]
    /\ lateWrite' = Late
    /\ UNCHANGED <<device, auxVars, lifeVars, expVars, exposure_lock, cmd, response,
                   coolVars, coolHist>>

\* min(100, max(0, int(abs(temp_diff) * 10)))
CoolingPower(temp_diff) == Min(MaxPower, Max(0, Abs(temp_diff) \div 10))

\* the sensor temperature after one tick with the cooler on
CooledTemp(temp_diff, sensor, target) ==
    IF Abs(temp_diff) > TempTolerance
      THEN sensor + Sign(temp_diff) * CoolingPower(temp_diff)
      ELSE target

\* an update_loop that reports no power once the target is reached
DrivePowerIdleAtTarget(temp_diff) ==
    IF Abs(temp_diff) > TempTolerance THEN CoolingPower(temp_diff) ELSE 0

\* the drive power after one tick with the cooler on
DrivePower(temp_diff) ==
    IF Abs(temp_diff) > TempTolerance THEN CoolingPower(temp_diff) ELSE HoldingPower

\* a relaxation that steps past the ambient temperature
RelaxedTempOvershoot(sensor) ==
    IF Abs(sensor - AmbientTemp) > TempTolerance
      THEN sensor + 2 * (AmbientTemp - sensor)
      ELSE sensor

\* the sensor temperature after one tick with the cooler off
RelaxedTemp(sensor) ==
    IF Abs(sensor - AmbientTemp) > TempTolerance
      THEN sensor + TruncDiv((AmbientTemp - sensor) * RelaxPercent, 100)
      ELSE sensor

\* update_loop: if self.cooler_enabled: temp_diff = self.cooler_temp - self.sensor_temp
UpdateLoop_Read(t) ==
    /\ loops[t].pc = "read"
    /\ loops' = [loops EXCEPT ![t] = [pc |-> "apply", en |-> cooler_enabled,
                   temp_diff |-> IF cooler_enabled THEN cooler_temp - sensor_temp ELSE 0,
                   scen |-> coolHist = "cooling"]]
    /\ UNCHANGED <<device, auxVars, lifeVars, lateWrite, expVars, exposure_lock, cmd, response,
                   coolVars, coolHist>>

\* update_loop: the two branches that set cooler_power and sensor_temp
UpdateLoop_Apply(t) ==
    /\ loops[t].pc = "apply"
    /\ loops' = [loops EXCEPT ![t].pc = "write"]
    /\ IF loops[t].en
         THEN /\ cooler_power' = DrivePower(loops[t].temp_diff)
              /\ sensor_temp' = CooledTemp(loops[t].temp_diff, sensor_temp, cooler_temp)
         ELSE /\ cooler_power' = 0
              /\ sensor_temp' = RelaxedTemp(sensor_temp)
    /\ UNCHANGED <<device, auxVars, lifeVars, lateWrite, expVars, exposure_lock, cmd, response,
                   cooler_enabled, cooler_temp, coolProps, coolHist>>

\* an update_loop whose tick also resets the exposure flags
UpdateLoop_WriteResetsExposure(t) ==
    /\ loops[t].pc = "write"
    /\ loops' = [loops EXCEPT ![t] = [NoLoop EXCEPT !.pc = "check"]]
    /\ coolProps' = [coolProps EXCEPT !.sensor_temperature = sensor_temp,
                                      !.cooler_power = cooler_power]
    /\ lateWrite' = Late
    /\ is_exposing' = FALSE
    /\ props' = [props EXCEPT !.exposing = FALSE]
    /\ UNCHANGED <<device, auxVars, lifeVars, image_ready, image_data, exposure_time,
                   exposure_thread, exps, exposure_lock, cmd, response,
                   cooler_enabled, cooler_temp, sensor_temp, cooler_power, coolHist>>

\* update_loop: set_property("sensor_temperature", round(sensor_temp, 2));
\*              set_property("cooler_power", cooler_power)
UpdateLoop_Write(t) ==
    /\ loops[t].pc = "write"
    /\ loops' = [loops EXCEPT ![t] = [NoLoop EXCEPT !.pc = "check"]]
    /\ coolProps' = [coolProps EXCEPT !.sensor_temperature = sensor_temp,
                                      !.cooler_power = cooler_power]
    /\ lateWrite' = Late
    /\ UNCHANGED <<device, auxVars, lifeVars, expVars, exposure_lock, cmd, response,
                   cooler_enabled, cooler_temp, sensor_temp, cooler_power, coolHist>>

\* AdvancedCamera.update_loop
UpdateLoop(t) ==
    \/ Loop_Check(t)
    \/ Loop_Wake(t)
    \/ UpdateLoop_Read(t)
    \/ UpdateLoop_Apply(t)
    \/ UpdateLoop_Write(t)

\* a set_property / send_event of the iteration raises: no loop body has a
\* try/except, so the exception leaves the thread's target and the thread ends
Loop_Raise(t) ==
    /\ loops[t].pc = (IF device = "camera" THEN "write" ELSE "work")
    /\ loops' = [loops EXCEPT ![t] =
                   [NoLoop EXCEPT !.pc = IF t = update_thread THEN "done" ELSE "none"]]
    /\ UNCHANGED <<device, auxVars, lifeVars, lateWrite, expVars, exposure_lock, cmd, response,
                   coolVars, coolHist>>

LoopStep(t) ==
    \/ UpdateLoop(t)
    \/ Loop_Work(t)
    \/ Loop_Raise(t)


\* ------------------------------------------------------------ camera: exposure commands
Ev(name) == [name |-> name, width |-> 0, height |-> 0]
Emit(t, e) == [exps EXCEPT ![t].ev = Append(@, e)]

Durations == 0..MaxDuration
Missing == -1             \* the command does not carry the parameter
Invalid == -2             \* the parameter is not a number (float() / min() raise on it)

\* a start_exposure without the busy check
BusyNever == FALSE

\* start_exposure: if self.is_exposing: ... return False
Busy == is_exposing

\* handle_start_exposure with "duration" d: the parameter check,
\* duration = float(params["duration"]), then the call of start_exposure
HandleStartExposure(d) ==
    /\ device = "camera"
    /\ cmd.pc = "idle"
    /\ CASE d = Missing ->
              /\ response' = "ERROR"
              /\ cmd' = [pc |-> "idle", arg |-> 0, ret |-> "none"]
         [] d = Invalid ->
              /\ response' = "UNKNOWN"
              /\ cmd' = [pc |-> "idle", arg |-> 0, ret |-> "raised"]
         [] OTHER ->
              /\ FreeExps # {} \/ is_exposing
              /\ response' = "UNKNOWN"
              /\ cmd' = [pc |-> "se_lock", arg |-> d, ret |-> "none"]
    /\ UNCHANGED <<device, auxVars, lifeVars, loops, lateWrite, expVars, exposure_lock,
                   coolVars, coolHist>>

Cmd_StartExposure == \E d \in Durations \cup {Missing, Invalid} : HandleStartExposure(d)

\* start_exposure: with self.exposure_lock: the busy check, then
\* self.exposure_time = exposure_time; self.is_exposing = True
StartExposure_Check ==
    /\ cmd.pc = "se_lock"
    /\ exposure_lock = "free"
    /\ IF Busy
         THEN /\ cmd' = [pc |-> "idle", arg |-> 0, ret |-> "False"]
              /\ response' = "ERROR"
              /\ UNCHANGED <<exposure_lock, exposure_time, is_exposing>>
         ELSE /\ FreeExps # {}
              /\ exposure_lock' = "cmd"
              /\ exposure_time' = cmd.arg
              /\ is_exposing' = TRUE
              /\ cmd' = [cmd EXCEPT !.pc = "se_129"]
              /\ UNCHANGED response
    /\ UNCHANGED <<device, auxVars, lifeVars, loops, lateWrite, image_ready, image_data, props,
                   exposure_thread, exps, coolVars, coolHist>>

\* start_exposure: self.image_ready = False
StartExposure_ClearReady ==
    /\ cmd.pc = "se_129"
    /\ image_ready' = FALSE
    /\ cmd' = [cmd EXCEPT !.pc = "se_130"]
    /\ UNCHANGED <<device, auxVars, lifeVars, loops, lateWrite, is_exposing, image_data,
                   exposure_time, props, exposure_thread, exps, exposure_lock, response,
                   coolVars, coolHist>>

\* start_exposure: the three set_property calls; the thread is created and
\* started; return True; handle_start_exposure: status SUCCESS
StartExposure_Spawn ==
    /\ cmd.pc = "se_130"
    /\ props' = [exposing |-> TRUE, image_ready |-> FALSE]
    /\ LET t == FirstOf(FreeExps)
           kept == [u \in ExpIds |-> IF ExpAlive(u) THEN exps[u] ELSE NoExp]
       IN  /\ exposure_thread' = t
           /\ exps' = [kept EXCEPT ![t] =
                         [NoExp EXCEPT !.pc = "begin", !.remaining = cmd.arg]]
    /\ exposure_lock' = "free"
    /\ cmd' = [pc |-> "idle", arg |-> 0, ret |-> "True"]
    /\ response' = "SUCCESS"
    /\ UNCHANGED <<device, auxVars, lifeVars, loops, lateWrite, is_exposing, image_ready,
                   image_data, exposure_time, coolVars, coolHist>>

\* handle_abort_exposure
Cmd_AbortExposure ==
    /\ device = "camera"
    /\ cmd.pc = "idle"
    /\ response' = "UNKNOWN"
    /\ cmd' = [pc |-> "ab_lock", arg |-> 0, ret |-> "none"]
    /\ UNCHANGED <<device, auxVars, lifeVars, loops, lateWrite, expVars, exposure_lock,
                   coolVars, coolHist>>

\* an abort_exposure without the test of is_exposing
AbortExposure_CheckSkipped ==
    /\ cmd.pc = "ab_lock"
    /\ exposure_lock = "free"
    /\ exposure_thread # None
    /\ exposure_lock' = "cmd"
    /\ cmd' = [cmd EXCEPT !.pc = "ab_148"]
    /\ UNCHANGED <<device, auxVars, lifeVars, loops, lateWrite, expVars, coolVars, coolHist,
                   response>>

\* abort_exposure: with self.exposure_lock: if not self.is_exposing: return False
AbortExposure_Check ==
    /\ cmd.pc = "ab_lock"
    /\ exposure_lock = "free"
    /\ IF ~is_exposing
         THEN /\ cmd' = [pc |-> "idle", arg |-> 0, ret |-> "False"]
              /\ response' = "ERROR"
              /\ UNCHANGED exposure_lock
         ELSE /\ exposure_lock' = "cmd"
              /\ cmd' = [cmd EXCEPT !.pc = "ab_148"]
              /\ UNCHANGED response
    /\ UNCHANGED <<device, auxVars, lifeVars, loops, lateWrite, expVars, coolVars, coolHist>>

\* the part of exposure_process in which the exposure is being taken (up to the
\* abort check after the progress loop), and the part after it
ExposingPhase == {"begin", "loop", "sleep", "check"}
ReadoutPhase == {"readout", "fin198", "except", "exit"}

\* abort_exposure: self.is_exposing = False; set_property("exposing", False)
AbortExposure_Clear ==
    /\ cmd.pc = "ab_148"
    /\ is_exposing' = FALSE
    /\ props' = [props EXCEPT !.exposing = FALSE]
    /\ exps' = [exps EXCEPT ![exposure_thread].aborted =
                   IF exps[exposure_thread].pc \in ExposingPhase
                     THEN "exposing" ELSE "readout"]
    /\ cmd' = [cmd EXCEPT !.pc = "ab_152"]
    /\ UNCHANGED <<device, auxVars, lifeVars, loops, lateWrite, image_ready, image_data,
                   exposure_time, exposure_thread, exposure_lock, response,
                   coolVars, coolHist>>

\* abort_exposure: send_event("EXPOSURE_ABORTED", ...) inside the with block; return True;
\* handle_abort_exposure: status SUCCESS
AbortExposure_Event ==
    /\ cmd.pc = "ab_152"
    /\ exps' = [exps EXCEPT ![exposure_thread].nAborted = @ + 1,
                             ![exposure_thread].abortedFirst = (exps[exposure_thread].ev = <<>>)]
    /\ exposure_lock' = "free"
    /\ cmd' = [pc |-> "idle", arg |-> 0, ret |-> "True"]
    /\ response' = "SUCCESS"
    /\ UNCHANGED <<device, auxVars, lifeVars, loops, lateWrite, is_exposing, image_ready,
                   image_data, exposure_time, props, exposure_thread, coolVars, coolHist>>

\* ------------------------------------------------------------ camera: exposure_process
ExpFrame == <<device, auxVars, lifeVars, loops, exposure_lock, cmd, response, coolVars, coolHist>>

\* send_event("EXPOSURE_STARTED", ...)
Exp_Begin(t) ==
    /\ exps[t].pc = "begin"
    /\ exps' = [Emit(t, Ev("EXPOSURE_STARTED")) EXCEPT ![t].pc = "loop"]
    /\ lateWrite' = Late
    /\ UNCHANGED <<ExpFrame, is_exposing, image_ready, image_data, exposure_time, props,
                   exposure_thread>>

\* while self.is_exposing and (time.time() - start_time) < exposure_time:
\*     send_event("EXPOSURE_PROGRESS", ...)      (sends the event or raises)
Exp_Loop(t) ==
    /\ exps[t].pc = "loop"
    /\ IF is_exposing /\ exps[t].remaining > 0
         THEN \E ok \in BOOLEAN :
                IF ok
                  THEN /\ exps' = [Emit(t, Ev("EXPOSURE_PROGRESS")) EXCEPT ![t].pc = "sleep"]
                       /\ lateWrite' = Late
                  ELSE /\ exps' = [exps EXCEPT ![t].pc = "except"]
                       /\ UNCHANGED lateWrite
         ELSE /\ exps' = [exps EXCEPT ![t].pc = "check"]
              /\ UNCHANGED lateWrite
    /\ UNCHANGED <<ExpFrame, is_exposing, image_ready, image_data, exposure_time, props,
                   exposure_thread>>

\* time.sleep(0.5) ends
Exp_Wake(t) ==
    /\ exps[t].pc = "sleep"
    /\ exps' = [exps EXCEPT ![t].pc = "loop", ![t].remaining = @ - 1]
    /\ UNCHANGED <<ExpFrame, lateWrite, is_exposing, image_ready, image_data,
                   exposure_time, props, exposure_thread>>

\* if not self.is_exposing: return
\* send_event("READING_OUT", ...)
Exp_AbortCheck(t) ==
    /\ exps[t].pc = "check"
    /\ IF ~is_exposing
         THEN /\ exps' = [exps EXCEPT ![t].pc = "exit"]
              /\ UNCHANGED lateWrite
         ELSE /\ exps' = [Emit(t, Ev("READING_OUT")) EXCEPT ![t].pc = "readout"]
              /\ lateWrite' = Late
    /\ UNCHANGED <<ExpFrame, is_exposing, image_ready, image_data, exposure_time, props,
                   exposure_thread>>

\* time.sleep(1.0) ends; generate_image(is_light) stores the image or raises;
\* self.is_exposing = False
Exp_Generate(t) ==
    /\ exps[t].pc = "readout"
    /\ \E ok \in BOOLEAN :
         IF ok
           THEN /\ image_data' = TRUE
                /\ is_exposing' = FALSE
                /\ exps' = [exps EXCEPT ![t].pc = "fin198"]
           ELSE /\ UNCHANGED <<image_data, is_exposing>>
                /\ exps' = [exps EXCEPT ![t].pc = "except"]
    /\ UNCHANGED <<ExpFrame, lateWrite, image_ready, exposure_time, props,
                   exposure_thread>>

\* self.image_ready = True; set_property("exposing", False);
\* set_property("image_ready", True);
\* send_event("EXPOSURE_COMPLETE", {..., "image_size": {width, height}})
Exp_Complete(t) ==
    /\ exps[t].pc = "fin198"
    /\ image_ready' = TRUE
    /\ props' = [props EXCEPT !.exposing = FALSE, !.image_ready = TRUE]
    /\ exps' = [Emit(t, [name |-> "EXPOSURE_COMPLETE", width |-> width, height |-> height])
                  EXCEPT ![t].pc = "exit"]
    /\ lateWrite' = Late
    /\ UNCHANGED <<ExpFrame, is_exposing, image_data, exposure_time, exposure_thread>>

\* an except block that leaves the exposing flag set
Exp_ExceptKeepsExposing(t) ==
    /\ exps[t].pc = "except"
    /\ exps' = [Emit(t, Ev("EXPOSURE_ERROR")) EXCEPT ![t].pc = "exit"]
    /\ lateWrite' = Late
    /\ UNCHANGED <<ExpFrame, is_exposing, props, image_ready, image_data, exposure_time,
                   exposure_thread>>

\* except Exception: is_exposing = False; set_property("exposing", False);
\*                   send_event("EXPOSURE_ERROR", ...)
Exp_Except(t) ==
    /\ exps[t].pc = "except"
    /\ is_exposing' = FALSE
    /\ props' = [props EXCEPT !.exposing = FALSE]
    /\ exps' = [Emit(t, Ev("EXPOSURE_ERROR")) EXCEPT ![t].pc = "exit"]
    /\ lateWrite' = Late
    /\ UNCHANGED <<ExpFrame, image_ready, image_data, exposure_time, exposure_thread>>

\* exposure_process returns (after its last log call): the thread is no longer alive
Exp_Return(t) ==
    /\ exps[t].pc = "exit"
    /\ exps' = [exps EXCEPT ![t] =
                  IF t = exposure_thread
                    THEN [@ EXCEPT !.pc = "done", !.remaining = 0]
                    ELSE NoExp]
    /\ UNCHANGED <<ExpFrame, lateWrite, is_exposing, image_ready, image_data,
                   exposure_time, props, exposure_thread>>

ExpStep(t) ==
    \/ Exp_Begin(t)
    \/ Exp_Loop(t)
    \/ Exp_Wake(t)
    \/ Exp_AbortCheck(t)
    \/ Exp_Generate(t)
    \/ Exp_Complete(t)
    \/ Exp_Except(t)
    \/ Exp_Return(t)

\* ------------------------------------------------------------ other command handlers
handlerFrame == <<device, lifeVars, loops, lateWrite, expVars, exposure_lock,
                  coolVars, coolHist, guider, simVars, toolVars>>

\* handle_get_image
HandleGetImage ==
    /\ device = "camera"
    /\ cmd.pc = "idle"
    /\ response' = IF ~image_ready \/ ~image_data THEN "ERROR" ELSE "SUCCESS"
    /\ cmd' = [pc |-> "idle", arg |-> 0, ret |-> "handled"]
    /\ UNCHANGED <<handlerFrame, switch>>

\* MyCustomSwitch.handle_get_temp
HandleGetTemp ==
    /\ device = "switch"
    /\ cmd.pc = "idle"
    /\ response' = "SUCCESS"
    /\ cmd' = [pc |-> "idle", arg |-> 0, ret |-> "handled"]
    /\ UNCHANGED <<handlerFrame, switch>>

\* the temperatures a SET_TEMPERATURE command carries: none, 25.0, or not a number
SetTemps == {Missing, Invalid, 25}

\* MyCustomSwitch.handle_set_temp with "temperature" v: whatever is given is stored
HandleSetTemp(v) ==
    /\ device = "switch"
    /\ cmd.pc = "idle"
    /\ IF v = Missing
         THEN /\ response' = "ERROR"
              /\ UNCHANGED switch
         ELSE /\ response' = "SUCCESS"
              /\ switch' = [temperature |-> v, property |-> v]
    /\ cmd' = [pc |-> "idle", arg |-> 0, ret |-> "handled"]
    /\ UNCHANGED handlerFrame

Cmd_SetTemp == \E v \in SetTemps : HandleSetTemp(v)

\* CustomTelescope.handle_custom_command: no parameters, operation ROTATE, or another
TelescopeOps == {"none", "ROTATE", "PARK"}
HandleCustomCommand(operation) ==
    /\ device = "telescope"
    /\ cmd.pc = "idle"
    /\ response' = IF operation = "ROTATE" THEN "SUCCESS" ELSE "ERROR"
    /\ cmd' = [pc |-> "idle", arg |-> 0, ret |-> "handled"]
    /\ UNCHANGED <<handlerFrame, switch>>

Cmd_CustomCommand == \E operation \in TelescopeOps : HandleCustomCommand(operation)

\* CustomTelescope.handle_calculate_field: fov_width * fov_height raises when a
\* field of view is not a number; nothing checks the parameters
HandleCalculateField(fov) ==
    /\ device = "telescope"
    /\ cmd.pc = "idle"
    /\ IF fov = Invalid
         THEN /\ response' = "UNKNOWN"
              /\ cmd' = [pc |-> "idle", arg |-> 0, ret |-> "raised"]
         ELSE /\ response' = "SUCCESS"
              /\ cmd' = [pc |-> "idle", arg |-> 0, ret |-> "handled"]
    /\ UNCHANGED <<handlerFrame, switch>>

Cmd_CalculateField == \E fov \in {Missing, Invalid, 1} : HandleCalculateField(fov)

\* ------------------------------------------------------------ guider: PiGuider
\* self.dither_sequence = [1.5, 2.0, 2.5, 2.0, 1.5], in tenths
DitherSequence == <<15, 20, 25, 20, 15>>
DitherLen == Len(DitherSequence)

\* an auto_dither whose cursor wraps one element early
NextDitherIndexShort(i) == (i + 1) % (DitherLen - 1)

\* (self.dither_index + 1) % len(self.dither_sequence)
NextDitherIndex(i) == (i + 1) % DitherLen

\* auto_dither: amount = self.dither_sequence[self.dither_index]; the cursor
\* advances; self.dither(amount, True) of the base class succeeds or raises
Guider_AutoDither ==
    /\ Len(guider.used) < MaxDithers
    /\ \E ok \in BOOLEAN :
         guider' = [guider EXCEPT
                      !.amount = DitherSequence[guider.dither_index + 1],
                      !.used = Append(@, guider.dither_index),
                      !.dither_index = NextDitherIndex(@),
                      !.dithered = IF ok THEN "ok" ELSE "raised"]
    /\ UNCHANGED <<coreVars, switch, simVars, toolVars>>

\* auto_calibrate_and_guide: self.start_calibration(); the monitor thread starts
Guider_AutoCalibrate ==
    /\ guider.monitor = "none"
    /\ guider' = [guider EXCEPT !.calibrationState = "CALIBRATING", !.monitor = "sleep"]
    /\ UNCHANGED <<coreVars, switch, simVars, toolVars>>

\* the base class ends the calibration: COMPLETED or FAILED
Guider_CalibrationEnds ==
    /\ guider.calibrationState = "CALIBRATING"
    /\ \E r \in {"COMPLETED", "FAILED"} :
         guider' = [guider EXCEPT !.calibrationState = r]
    /\ UNCHANGED <<coreVars, switch, simVars, toolVars>>

\* monitor_calibration: time.sleep(1) ends
Guider_MonitorWake ==
    /\ guider.monitor = "sleep"
    /\ guider' = [guider EXCEPT !.monitor = "poll"]
    /\ UNCHANGED <<coreVars, switch, simVars, toolVars>>

\* a monitor that starts guiding on any end of the calibration
Guider_MonitorPollAnyEnd ==
    /\ guider.monitor = "poll"
    /\ guider' = [guider EXCEPT
                    !.monitor = IF guider.calibrationState \in {"COMPLETED", "FAILED"}
                                  THEN "done" ELSE "sleep",
                    !.state = IF guider.calibrationState \in {"COMPLETED", "FAILED"}
                                THEN "GUIDING" ELSE @,
                    !.nStartGuiding = IF guider.calibrationState \in {"COMPLETED", "FAILED"}
                                        THEN @ + 1 ELSE @]
    /\ UNCHANGED <<coreVars, switch, simVars, toolVars>>

\* monitor_calibration: state_prop = self.get_property("calibrationState");
\* COMPLETED: self.start_guiding(), break; FAILED: break; otherwise loop
Guider_MonitorPoll ==
    /\ guider.monitor = "poll"
    /\ guider' = [guider EXCEPT
                    !.monitor = IF guider.calibrationState \in {"COMPLETED", "FAILED"}
                                  THEN "done" ELSE "sleep",
                    !.state = IF guider.calibrationState = "COMPLETED"
                                THEN "GUIDING" ELSE @,
                    !.nStartGuiding = IF guider.calibrationState = "COMPLETED"
                                        THEN @ + 1 ELSE @]
    /\ UNCHANGED <<coreVars, switch, simVars, toolVars>>

\* ------------------------------------------- movement devices (base classes)
\* PyFocuser / PyFilterWheel / PyRotator implement movement in the compiled base
\* class; the state machine below follows the movement contract:
\*   IDLE --move(target)--> MOVING; the position advances toward the target at a
\*   fixed rate per tick; at the target MOVING --> IDLE (COMPLETE); abort() while
\*   MOVING freezes the position and goes to IDLE (ABORTED).
Positions == 0..MaxPosition
MoveRate == 1

moverFrame == <<coreVars, guider, switch, solver, validation, toolVars>>

\* set_position / move_absolute / move_to: a move while MOVING either redirects
\* the target or is rejected (either policy)
Mover_Move(k, target) ==
    /\ IF mover[k].state = "MOVING"
         THEN \E policy \in {"redirect", "reject"} :
                mover' = [mover EXCEPT ![k] =
                            IF policy = "redirect"
                              THEN [@ EXCEPT !.target = target, !.reply = "SUCCESS"]
                              ELSE [@ EXCEPT !.reply = "ERROR"]]
         ELSE mover' = [mover EXCEPT ![k] =
                          [@ EXCEPT !.target = target, !.state = "MOVING",
                                    !.outcome = "none", !.reply = "SUCCESS"]]
    /\ UNCHANGED moverFrame

\* a tick of a simulation whose abort() leaves the movement running
Mover_TickIgnoresAbort(k) ==
    /\ mover[k].state = "MOVING" \/ mover[k].outcome = "ABORTED"
    /\ LET m == mover[k]
           d == m.target - m.position
           p == m.position + Sign(d) * Min(MoveRate, Abs(d))
       IN  mover' = [mover EXCEPT ![k] =
                       [m EXCEPT !.position = p,
                                 !.state = IF p = m.target THEN "IDLE" ELSE @]]
    /\ UNCHANGED moverFrame

\* one tick of the movement simulation
Mover_Tick(k) ==
    /\ mover[k].state = "MOVING"
    /\ LET m == mover[k]
           d == m.target - m.position
           p == m.position + Sign(d) * Min(MoveRate, Abs(d))
       IN  mover' = [mover EXCEPT ![k] =
                       [m EXCEPT !.position = p,
                                 !.state = IF p = m.target THEN "IDLE" ELSE @,
                                 !.outcome = IF p = m.target THEN "COMPLETE" ELSE @]]
    /\ UNCHANGED moverFrame

\* fw.abort() (custom_filter_wheel.py main, after set_position(7) and a short sleep)
Mover_Abort(k) ==
    /\ mover[k].state = "MOVING"
    /\ mover[k].position # mover[k].target
    /\ mover' = [mover EXCEPT ![k] =
                   [@ EXCEPT !.state = "IDLE", !.outcome = "ABORTED",
                             !.frozen = mover[k].position]]
    /\ UNCHANGED moverFrame

\* ------------------------------------------------ plate solver (base class)
\* PySolver.solve / solve_from_file run in the compiled base class; the state
\* machine below follows the solve contract: IDLE --solve--> SOLVING, progress
\* is reported periodically, the job ends in SUCCESS or FAILED, a solve request
\* while SOLVING is rejected, and a solve after a terminal state is a fresh job.
solverFrame == <<coreVars, guider, switch, mover, validation, toolVars>>

\* a solver that takes every request, whatever its state
SolverNeverBusy == FALSE

\* the state in which a solve request is rejected
SolverBusy == solver.state = "SOLVING"

\* solver.solve_from_file(...) / self.solve(img_array, width, height)
Solver_Solve ==
    /\ solver.requests < MaxRequests
    /\ IF SolverBusy
         THEN solver' = [solver EXCEPT !.requests = @ + 1, !.reply = "ERROR"]
         ELSE solver' = [solver EXCEPT !.requests = @ + 1, !.reply = "SUCCESS",
                                       !.state = "SOLVING", !.progress = 0,
                                       !.job = @ + 1, !.solving = TRUE]
    /\ UNCHANGED solverFrame

\* while solving: time.sleep(1); state = solver.get_property("state");
\* solving = (state == "SOLVING")
Solver_Poll ==
    /\ solver.solving
    /\ solver' = [solver EXCEPT !.seen = solver.state,
                                !.solving = (solver.state = "SOLVING")]
    /\ UNCHANGED solverFrame

\* the job reports progress
Solver_Progress ==
    /\ solver.state = "SOLVING"
    /\ solver.progress < MaxProgress
    /\ solver' = [solver EXCEPT !.progress = @ + 1]
    /\ UNCHANGED solverFrame

\* the job ends: SUCCESS (the solution is filled in) or FAILED (the solution is
\* absent, or lacks the success flag, or has it false)
Solver_Finish ==
    /\ solver.state = "SOLVING"
    /\ solver.progress = MaxProgress
    /\ \/ \E sol \in SolvedSolutions :
            solver' = [solver EXCEPT !.state = "SUCCESS", !.lastSolution = sol]
       \/ \E sol \in FailedSolutions :
            solver' = [solver EXCEPT !.state = "FAILED", !.lastSolution = sol]
    /\ UNCHANGED solverFrame

\* a get_solution_as_dict that formats whatever solution exists
GetSolutionAsDictUnchecked(solution) ==
    IF ~solution.exists
      THEN NoDict
      ELSE [populated |-> TRUE, ra_hours |-> solution.ra,
            stars_detected |-> solution.starCount]

\* get_solution_as_dict: None unless the solution is non-empty, has the key
\* "success" and a true value under it; otherwise the renamed fields
GetSolutionAsDict(solution) ==
    IF ~solution.exists \/ ~solution.hasSuccess \/ ~solution.success
      THEN NoDict
      ELSE [populated |-> TRUE, ra_hours |-> solution.ra,
            stars_detected |-> solution.starCount]

\* solution = solver.get_solution_as_dict()
Solver_GetSolutionAsDict ==
    /\ solver' = [solver EXCEPT !.asDict = GetSolutionAsDict(solver.lastSolution)]
    /\ UNCHANGED solverFrame

\* ------------------------------------------------ TypeValidator (compiled)
\* hydrogen.TypeValidator is part of the compiled module; the operators below
\* give each validator's outcome: the value returned, or
\* ASCOMInvalidValueException raised.
Accepted(v) == [raised |-> FALSE, value |-> v]
Rejected == [raised |-> TRUE, value |-> None]

\* TypeValidator.validate_range(value, min, max, name)
ValidateRange(v, lo, hi) == IF lo <= v /\ v <= hi THEN Accepted(v) ELSE Rejected

\* a validate_positive that lets zero through
ValidatePositiveOrZero(v) == IF v >= 0 THEN Accepted(v) ELSE Rejected

\* TypeValidator.validate_positive(value, name)
ValidatePositive(v) == IF v > 0 THEN Accepted(v) ELSE Rejected

\* TypeValidator.validate_non_negative(value, name)
ValidateNonNegative(v) == IF v >= 0 THEN Accepted(v) ELSE Rejected

\* the numbers test_type_validator_utilities passes to the validators
TestValues == {-1, 0, 5, 10, 15}

validatorFrame == <<coreVars, guider, switch, mover, solver, toolVars>>

\* one call of a validator, as in test_type_validator_utilities
Validator_Call(fn, v, lo, hi) ==
    /\ LET r == CASE fn = "validate_range" -> ValidateRange(v, lo, hi)
                  [] fn = "validate_positive" -> ValidatePositive(v)
                  [] fn = "validate_non_negative" -> ValidateNonNegative(v)
       IN  validation' = [fn |-> fn, v |-> v, lo |-> lo, hi |-> hi,
                          raised |-> r.raised, value |-> r.value]
    /\ UNCHANGED validatorFrame

Validator_Range == \E v, lo, hi \in TestValues : Validator_Call("validate_range", v, lo, hi)
Validator_Positive == \E v \in TestValues : Validator_Call("validate_positive", v, 0, 0)
Validator_NonNegative ==
    \E v \in TestValues : Validator_Call("validate_non_negative", v, 0, 0)

\* ------------------------------------------------------------ camera: set_cooler
\* the temperatures a SET_COOLER command asks for: none, and two outside the
\* safe range (-40.0 and 60.0)
RequestedTemps == {NoTemp, -4000, 6000}
\* the target of the cooling scenario: -10.0
ScenarioTarget == -10 * 100

\* a set_cooler that stores the requested temperature as it is
Unclamped(temperature) == temperature

\* max(-30, min(50, temperature))
ClampTemp(temperature) == Max(MinCoolerTemp, Min(MaxCoolerTemp, temperature))

\* handle_set_cooler: enabled = params["enabled"]; temperature = params.get("temperature");
\* set_cooler: self.cooler_enabled = enabled
SetCooler_Enable(enabled, temperature) ==
    /\ device = "camera"
    /\ cmd.pc = "idle"
    /\ cmd' = [pc |-> "sc_268", arg |-> temperature, ret |-> "none"]
    /\ cooler_enabled' = enabled
    /\ coolHist' = IF coolHist = "fresh" /\ enabled /\ temperature = ScenarioTarget
                     THEN "calling" ELSE "other"
    /\ response' = "UNKNOWN"
    /\ UNCHANGED <<device, auxVars, lifeVars, loops, lateWrite, expVars, exposure_lock,
                   cooler_temp, sensor_temp, cooler_power, coolProps>>

\* set_cooler: if temperature is not None: self.cooler_temp = max(-30, min(50, temperature))
SetCooler_Target ==
    /\ cmd.pc = "sc_268"
    /\ IF cmd.arg = Invalid
         THEN /\ cmd' = [pc |-> "idle", arg |-> 0, ret |-> "raised"]
              /\ UNCHANGED cooler_temp
         ELSE /\ cooler_temp' = IF cmd.arg # NoTemp THEN ClampTemp(cmd.arg) ELSE cooler_temp
              /\ cmd' = [cmd EXCEPT !.pc = "sc_271", !.arg = 0]
    /\ UNCHANGED <<device, auxVars, lifeVars, loops, lateWrite, expVars, exposure_lock, response,
                   cooler_enabled, sensor_temp, cooler_power, coolProps, coolHist>>

\* set_cooler: the two set_property calls, send_event("COOLER_CHANGED", ...), return True;
\* handle_set_cooler: status SUCCESS
SetCooler_Publish ==
    /\ cmd.pc = "sc_271"
    /\ coolProps' = [coolProps EXCEPT !.cooler_enabled = cooler_enabled,
                                      !.cooler_temperature = cooler_temp]
    /\ cmd' = [pc |-> "idle", arg |-> 0, ret |-> "True"]
    /\ response' = "SUCCESS"
    /\ coolHist' = IF coolHist = "calling" THEN "cooling" ELSE coolHist
    /\ UNCHANGED <<device, auxVars, lifeVars, loops, lateWrite, expVars, exposure_lock,
                   cooler_enabled, cooler_temp, sensor_temp, cooler_power>>

\* a SET_COOLER command with any of the requested temperatures
Cmd_SetCooler ==
    \E enabled \in BOOLEAN, temperature \in RequestedTemps :
        SetCooler_Enable(enabled, temperature)

\* handle_set_cooler without "enabled": status ERROR
HandleSetCooler_NoEnabled ==
    /\ device = "camera"
    /\ cmd.pc = "idle"
    /\ response' = "ERROR"
    /\ cmd' = [pc |-> "idle", arg |-> 0, ret |-> "none"]
    /\ UNCHANGED <<device, auxVars, lifeVars, loops, lateWrite, expVars, exposure_lock,
                   coolVars, coolHist>>

\* a SET_COOLER command whose temperature is not a number
Cmd_SetCoolerInvalid == \E enabled \in BOOLEAN : SetCooler_Enable(enabled, Invalid)

\* the one SET_COOLER command of the cooling scenario: set_cooler(True, -10.0)
\* on a camera that has had no SET_COOLER command yet
Cmd_CoolToTarget ==
    /\ coolHist = "fresh"
    /\ SetCooler_Enable(TRUE, ScenarioTarget)

\* ------------------------------------------------ CompleteObservatory
\* the devices create_observatory_devices can end with: each creation is in a
\* try block, so a device that fails to be created is left out
Installations ==
    { {"camera", "telescope", "focuser", "dome", "weather", "safety", "cover"},
      {"camera", "telescope", "focuser", "dome", "weather"},
      {"camera", "telescope", "focuser", "weather"} }

\* the devices that do not answer get_device_info() in the connectivity check
Unresponsive == { {}, {"focuser"}, {"camera", "focuser"} }

\* emergency_shutdown: close_shutter, park, close_cover, abort_exposure, in
\* this order, each for its device if present
ShutdownOrder == <<"dome", "telescope", "cover", "camera">>

obsFrame == <<coreVars, guider, switch, simVars, testValidator>>

B2N(b) == IF b THEN 1 ELSE 0

\* pre_observation_checks: one check for the weather, one for the safety
\* monitor, one per device; return success_rate >= 80
RequiredRate == 80
PreObservationChecks(devices, weatherSafe, safetySafe, bad) ==
    LET total == B2N("weather" \in devices) + B2N("safety" \in devices)
                   + Cardinality(devices)
        passed == B2N("weather" \in devices /\ weatherSafe)
                   + B2N("safety" \in devices /\ safetySafe)
                   + Cardinality(devices \ bad)
    IN  total > 0 /\ passed * 100 >= RequiredRate * total

\* run_observatory: initialize_observatory(); self.running = True
Run_Initialize ==
    /\ obs.main = "new"
    /\ \E ds \in Installations :
         obs' = [obs EXCEPT !.devices = ds, !.running = TRUE, !.main = "start_monitoring"]
    /\ UNCHANGED obsFrame

\* start_weather_monitoring: the daemon thread is created and started
Run_StartMonitoring ==
    /\ obs.main = "start_monitoring"
    /\ obs' = [obs EXCEPT !.monitor = "check", !.main = "checks"]
    /\ UNCHANGED obsFrame

\* the weather, as the weather device reports it, changes
Weather_Change ==
    /\ obs.main \notin {"new", "returned"}
    /\ obs' = [obs EXCEPT !.weather_safe = ~@]
    /\ UNCHANGED obsFrame

\* run_observation_sequence: if not self.pre_observation_checks(): return False
\* (a weather or safety call that raises leads to the except block)
Seq_PreChecks ==
    /\ obs.main = "checks"
    /\ \/ \E safetySafe \in BOOLEAN, bad \in Unresponsive :
            LET ok == PreObservationChecks(obs.devices, obs.weather_safe, safetySafe, bad)
            IN  obs' = [obs EXCEPT
                          !.found = IF "weather" \in obs.devices
                                      THEN IF obs.weather_safe THEN "safe" ELSE "unsafe"
                                      ELSE "none",
                          !.main = IF ok THEN "open" ELSE "cleanup"]
       \/ obs' = [obs EXCEPT !.main = "shutdown",
                             !.shutdown["main"] = [NoShutdown EXCEPT !.at = 1]]
    /\ UNCHANGED obsFrame

\* open_observatory(): unpark, open_shutter, slew, open_cover; a call that
\* raises leads to the except block of run_observation_sequence
Seq_Open ==
    /\ obs.main = "open"
    /\ \E ok \in BOOLEAN :
         obs' = [obs EXCEPT !.opened = TRUE,
                            !.main = IF ok THEN "imaging" ELSE "shutdown",
                            !.shutdown["main"] =
                               IF ok THEN @ ELSE [NoShutdown EXCEPT !.at = 1]]
    /\ UNCHANGED obsFrame

\* setup_imaging(); run_imaging_sequence(); close_observatory(); return True
Seq_Imaging ==
    /\ obs.main = "imaging"
    /\ \E ok \in BOOLEAN :
         obs' = [obs EXCEPT !.main = IF ok THEN "cleanup" ELSE "shutdown",
                            !.shutdown["main"] =
                               IF ok THEN @ ELSE [NoShutdown EXCEPT !.at = 1]]
    /\ UNCHANGED obsFrame

\* where a caller of emergency_shutdown goes on when it returns
AfterShutdown(who) == IF who = "main" THEN "cleanup" ELSE "sleep"
InShutdown(who) ==
    IF who = "main" THEN obs.main = "shutdown" ELSE obs.monitor = "shutdown"

\* emergency_shutdown: the four actions are in ONE try block, so the first that
\* raises ends the sequence
ShutdownEndsAfter(ok, at) == ~ok \/ at = Len(ShutdownOrder)

\* emergency_shutdown, one protective action: skipped if the device is absent,
\* else called; the call returns or raises
EmergencyShutdown_Step(who) ==
    /\ InShutdown(who)
    /\ LET sd == obs.shutdown[who]
           d == ShutdownOrder[sd.at]
       IN  \E ok \in BOOLEAN :
             /\ d \notin obs.devices => ok
             /\ (who = "monitor" /\ d \in obs.devices) => obs.calling
             /\ LET att == IF d \in obs.devices THEN sd.attempted \cup {d}
                           ELSE sd.attempted
                    ends == ShutdownEndsAfter(ok, sd.at)
                    next == [at |-> IF ends THEN 0 ELSE sd.at + 1,
                             attempted |-> att, finished |-> ends]
                IN  obs' = IF who = "main"
                             THEN [obs EXCEPT !.shutdown[who] = next,
                                              !.main = IF ends THEN AfterShutdown(who) ELSE @]
                             ELSE [obs EXCEPT !.shutdown[who] = next,
                                              !.calling = FALSE,
                                              !.monitor = IF ends THEN AfterShutdown(who) ELSE @]
    /\ UNCHANGED obsFrame

\* weather_monitor: while self.running: ... if 'weather' in self.devices
Mon_Check ==
    /\ obs.monitor = "check"
    /\ obs' = [obs EXCEPT !.monitor =
                 IF ~obs.running THEN "done"
                 ELSE IF "weather" \in obs.devices THEN "refresh" ELSE "sleep"]
    /\ UNCHANGED obsFrame

\* the monitor thread enters its next call into a device: weather.refresh(),
\* weather.is_safe_for_observing(), or a protective action of emergency_shutdown
Mon_EnterCall ==
    /\ ~obs.calling
    /\ \/ obs.monitor \in {"refresh", "is_safe"}
       \/ /\ obs.monitor = "shutdown"
          /\ ShutdownOrder[obs.shutdown["monitor"].at] \in obs.devices
    /\ obs' = [obs EXCEPT !.calling = TRUE]
    /\ UNCHANGED obsFrame

\* weather.refresh() returns; an exception leads to the except block (sleep 60)
Mon_Refresh ==
    /\ obs.monitor = "refresh"
    /\ obs.calling
    /\ \E ok \in BOOLEAN :
         obs' = [obs EXCEPT !.calling = FALSE,
                            !.monitor = IF ok THEN "is_safe" ELSE "sleep"]
    /\ UNCHANGED obsFrame

\* if not weather.is_safe_for_observing(): self.emergency_shutdown()
Mon_IsSafe ==
    /\ obs.monitor = "is_safe"
    /\ obs.calling
    /\ obs' = IF obs.weather_safe
                THEN [obs EXCEPT !.calling = FALSE, !.monitor = "sleep"]
                ELSE [obs EXCEPT !.calling = FALSE, !.monitor = "shutdown",
                                 !.shutdown["monitor"] = [NoShutdown EXCEPT !.at = 1]]
    /\ UNCHANGED obsFrame

\* time.sleep(30) or time.sleep(60) ends
Mon_Wake ==
    /\ obs.monitor = "sleep"
    /\ obs' = [obs EXCEPT !.monitor = "check"]
    /\ UNCHANGED obsFrame

MonitorAlive == obs.monitor \notin {"none", "done"}

\* the monitor thread is in a sleep (30 s or 60 s) or inside a call into a
\* device, whose duration the program does not bound
MonitorOutlastsJoin == obs.monitor = "sleep" \/ obs.calling

\* cleanup: self.running = False
Cleanup_Begin ==
    /\ obs.main = "cleanup"
    /\ obs' = [obs EXCEPT !.running = FALSE,
                          !.main = IF MonitorAlive THEN "join" ELSE "stop_devices"]
    /\ UNCHANGED obsFrame

\* cleanup: self.weather_monitoring_thread.join(timeout=5)
Cleanup_Join ==
    /\ obs.main = "join"
    /\ ~MonitorAlive \/ MonitorOutlastsJoin
    /\ obs' = [obs EXCEPT !.main = "stop_devices"]
    /\ UNCHANGED obsFrame

\* cleanup: device.stop_device() for every device; shutdown_compatibility_system()
Cleanup_StopDevices ==
    /\ obs.main = "stop_devices"
    /\ obs' = [obs EXCEPT !.stopped = TRUE, !.main = "returned"]
    /\ UNCHANGED obsFrame

\* ------------------------------------ scripts/validate_device_lifecycle_tests.py
reportFrame == <<coreVars, guider, switch, simVars, obs>>

BuildSystems == {"cmake", "xmake"}

\* one step of run_validation that yields a boolean kept in a local:
\* validate_file_structure (all required files exist; check_file_exists records
\* each in results['file_checks'], so all(check['exists']) is the same boolean),
\* validate_test_content, validate_cmake_configuration, validate_xmake_configuration
Validate_FileStructure ==
    /\ testValidator.pc = "file_structure"
    /\ \E ok \in BOOLEAN :
         testValidator' = [testValidator EXCEPT !.file_structure_ok = ok,
                                                !.pc = "test_content"]
    /\ UNCHANGED reportFrame

Validate_TestContent ==
    /\ testValidator.pc = "test_content"
    /\ \E ok \in BOOLEAN :
         testValidator' = [testValidator EXCEPT !.test_content_ok = ok,
                                                !.pc = "cmake_config"]
    /\ UNCHANGED reportFrame

Validate_CMakeConfiguration ==
    /\ testValidator.pc = "cmake_config"
    /\ \E ok \in BOOLEAN :
         testValidator' = [testValidator EXCEPT !.cmake_config_ok = ok,
                                                !.pc = "xmake_config"]
    /\ UNCHANGED reportFrame

Validate_XMakeConfiguration ==
    /\ testValidator.pc = "xmake_config"
    /\ \E ok \in BOOLEAN :
         testValidator' = [testValidator EXCEPT !.xmake_config_ok = ok,
                                                !.pc = "cmake_build"]
    /\ UNCHANGED reportFrame

\* try_cmake_build / try_xmake_build: results['build_checks'][system] =
\* {'success': True} is written only when the build succeeded
Try_CMakeBuild ==
    /\ testValidator.pc = "cmake_build"
    /\ \E ok \in BOOLEAN :
         testValidator' = [testValidator EXCEPT
                             !.build_checks = IF ok THEN @ \cup {"cmake"} ELSE @,
                             !.pc = "xmake_build"]
    /\ UNCHANGED reportFrame

Try_XMakeBuild ==
    /\ testValidator.pc = "xmake_build"
    /\ \E ok \in BOOLEAN :
         testValidator' = [testValidator EXCEPT
                             !.build_checks = IF ok THEN @ \cup {"xmake"} ELSE @,
                             !.pc = "test_execution"]
    /\ UNCHANGED reportFrame

\* try_test_execution: the tests of each build system that was built are run;
\* results['test_execution'] holds which runs succeeded
Try_TestExecution ==
    /\ testValidator.pc = "test_execution"
    /\ \E passed \in SUBSET testValidator.build_checks :
         testValidator' = [testValidator EXCEPT !.test_execution = passed,
                                                !.pc = "report"]
    /\ UNCHANGED reportFrame

\* generate_report: the overall status from results alone
OverallStatus(file_checks_passed, build_checks, test_execution) ==
    LET build_checks_passed == build_checks # {}
        test_execution_passed == test_execution # {}
    IN  IF file_checks_passed /\ build_checks_passed /\ test_execution_passed
          THEN "success"
        ELSE IF file_checks_passed /\ build_checks_passed THEN "partial"
        ELSE "failed"

\* generate_report; run_validation returns overall_status == 'success';
\* main: sys.exit(0 if success else 1)
Generate_Report ==
    /\ testValidator.pc = "report"
    /\ LET status == OverallStatus(testValidator.file_structure_ok,
                                   testValidator.build_checks,
                                   testValidator.test_execution)
       IN  testValidator' = [testValidator EXCEPT
                               !.overall_status = status,
                               !.returned = IF status = "success" THEN "True" ELSE "False",
                               !.exit_code = IF status = "success" THEN 0 ELSE 1,
                               !.pc = "done"]
    /\ UNCHANGED reportFrame

\* ------------------------------------------------------------ properties
HasEvent(t, name) == \E i \in 1..Len(exps[t].ev) : exps[t].ev[i].name = name
CountEvent(t, name) == Cardinality({i \in 1..Len(exps[t].ev) : exps[t].ev[i].name = name})

\* C1: a start_exposure call that finds an exposure in progress (is_exposing
\* true when it holds the lock) returns False, the command gets an ERROR
\* response, and exposure_time, image_ready, the property store, is_exposing,
\* the exposure thread and the set of threads are left as they were.
C1_BusyStartRejected ==
    [][(cmd.pc = "se_lock" /\ cmd'.pc # "se_lock" /\ is_exposing)
         => /\ cmd' = [pc |-> "idle", arg |-> 0, ret |-> "False"]
            /\ response' = "ERROR"
            /\ UNCHANGED <<exposure_time, image_ready, props, is_exposing,
                           exposure_thread, exps>>]_vars

\* a start_exposure was rejected while the job's thread is still at work
C1_Witness ==
    /\ cmd.pc = "idle" /\ cmd.ret = "False" /\ response = "ERROR"
    /\ is_exposing
    /\ exposure_thread # None /\ ExpAlive(exposure_thread)

\* C2: once abort_exposure has cleared is_exposing for a job whose thread was in
\* its exposing phase, and has returned, exactly one EXPOSURE_ABORTED was
\* emitted for the job and its thread never emits EXPOSURE_COMPLETE.
C2_AbortedWhileExposingNeverCompletes ==
    \A t \in ExpIds :
        (exps[t].aborted = "exposing" /\ exps[t].nAborted >= 1)
          => /\ exps[t].nAborted = 1
             /\ ~HasEvent(t, "EXPOSURE_COMPLETE")

\* C3: at most one exposure thread is inside its progress loop or its readout.
ActivePhase == {"begin", "loop", "sleep", "check", "readout", "fin198", "except"}
C3_OneActiveExposure ==
    Cardinality({t \in ExpIds : exps[t].pc \in ActivePhase}) <= 1

\* C4: an exposure for which abort_exposure returned True never sets
\* image_ready and never emits EXPOSURE_COMPLETE, whatever phase its thread was in.
C4_AbortedProducesNoImage ==
    \A t \in ExpIds :
        (exps[t].aborted # "no" /\ exps[t].nAborted >= 1)
          => ~HasEvent(t, "EXPOSURE_COMPLETE")

\* C5: an exposure that was never aborted and whose readout did not fail ends
\* with exactly one EXPOSURE_COMPLETE carrying the configured width and height.
C5_UnabortedCompletes ==
    \A t \in ExpIds :
        (exps[t].pc \in {"exit", "done"} /\ exps[t].aborted = "no"
            /\ ~HasEvent(t, "EXPOSURE_ERROR"))
          => /\ CountEvent(t, "EXPOSURE_COMPLETE") = 1
             /\ \A i \in 1..Len(exps[t].ev) :
                  exps[t].ev[i].name = "EXPOSURE_COMPLETE"
                    => exps[t].ev[i].width = width /\ exps[t].ev[i].height = height

\* C6: after stop() has returned, no background thread of the device calls
\* set_property or send_event.
C6_NoWriteAfterStop == ~lateWrite

\* C7: a stop() called on a device that is stopped or was never started raises
\* nothing, keeps running and "connected" false, keeps the thread attribute, and
\* no thread comes to life during it.
C7_StopIdempotent ==
    [][((lpc # "idle" \/ lpc' # "idle") /\ stopFrom' \in {"new", "stopped"})
         => /\ running' = FALSE
            /\ connected' = FALSE
            /\ update_thread' = stopSnap'
            /\ stopResult' # "error"
            /\ lifecycle' = stopFrom' \/ lifecycle' = "stopped"
            /\ \A t \in LoopIds :
                 loops'[t].pc \notin {"none", "done"} => LoopAlive(t)]_vars

\* a second stop() has returned on a device that was started and stopped
C7_Witness ==
    /\ lpc = "idle" /\ stopFrom = "stopped" /\ stopResult = "ok"
    /\ update_thread # None

\* C8: a stop() in which a bounded join timed out with the thread still alive
\* gives its caller an error or failure result.
C8_JoinTimeoutSurfaced ==
    (lpc = "idle" /\ stopResult # "none" /\ joinTimedOut) => stopResult = "error"

\* C9: cooler_power is within [0,100] and cooler_temp within [-30,50].
C9_PowerAndTargetClamped ==
    /\ cooler_power \in 0..MaxPower
    /\ cooler_temp \in MinCoolerTemp..MaxCoolerTemp

\* a request outside the safe range has been stored, and the loop has run at full power
C9_Witness ==
    /\ cooler_temp = MaxCoolerTemp
    /\ cooler_power = MaxPower
    /\ cmd.ret = "True"

\* C10: after set_cooler(True, -10.0) on a fresh camera has returned, a tick
\* strictly lowers the sensor temperature while it is more than 0.1 above the
\* target; otherwise the tick leaves it equal to the target with cooler_power
\* at the holding value 10; no tick sets cooler_power to 0.
C10_CoolsThenHolds ==
    [][\A t \in LoopIds :
         (loops[t].pc = "apply" /\ loops'[t].pc = "write" /\ loops[t].scen)
           => /\ cooler_temp = ScenarioTarget
              /\ IF sensor_temp - cooler_temp > TempTolerance
                   THEN sensor_temp' < sensor_temp
                   ELSE /\ sensor_temp' = cooler_temp
                        /\ cooler_power' = HoldingPower
              /\ cooler_power' # 0]_vars

\* a tick has found the sensor within 0.1 above the target, set it to the target
\* and set the holding power
C10_Witness ==
    /\ coolHist = "cooling"
    /\ \E t \in LoopIds : /\ loops[t].pc = "write" /\ loops[t].scen
                           /\ loops[t].temp_diff # 0
                           /\ Abs(loops[t].temp_diff) <= TempTolerance
    /\ sensor_temp = ScenarioTarget
    /\ cooler_power = HoldingPower

\* C11: the k-th auto_dither call (k = 0, 1, ...) uses the element at index
\* k mod n of the dither sequence, and dither_index stays within [0, n).
C11_DitherCursorCircular ==
    /\ guider.dither_index \in 0..(DitherLen - 1)
    /\ guider.dither_index = Len(guider.used) % DitherLen
    /\ \A k \in 1..Len(guider.used) : guider.used[k] = (k - 1) % DitherLen
    /\ guider.used # <<>> =>
         guider.amount = DitherSequence[((Len(guider.used) - 1) % DitherLen) + 1]

\* seven calls have used the indices 0,1,2,3,4,0,1
C11_Witness == guider.used = <<0, 1, 2, 3, 4, 0, 1>> /\ guider.dither_index = 2

\* C12: START_EXPOSURE without a duration or with an invalid one, SET_COOLER
\* without "enabled" and SET_TEMPERATURE without a temperature end with status
\* ERROR, raise nothing, and leave the device as it was.
C12_HandlersValidateParameters ==
    [][(\/ HandleStartExposure(Missing)
        \/ HandleStartExposure(Invalid)
        \/ HandleSetCooler_NoEnabled
        \/ HandleSetTemp(Missing))
         => /\ response' = "ERROR"
            /\ cmd'.pc = "idle" /\ cmd'.ret # "raised"
            /\ UNCHANGED <<lifeVars, loops, expVars, coolVars, switch>>]_vars

\* C13: when a handler has returned, the status is SUCCESS or ERROR and the
\* handler has not raised.
C13_HandlersSetStatus ==
    (cmd.pc = "idle" /\ cmd.ret # "none")
      => /\ response \in {"SUCCESS", "ERROR"}
         /\ cmd.ret # "raised"

C15_SolveWhileSolvingRejected ==
    [][(solver.state = "SOLVING" /\ solver'.requests # solver.requests)
         => /\ solver'.reply = "ERROR"
            /\ solver'.state = "SOLVING"
            /\ solver'.progress = solver.progress
            /\ solver'.job = solver.job]_vars

\* a second request was rejected in the middle of the first job, which has
\* progressed since
C15_Witness ==
    /\ solver.state = "SOLVING" /\ solver.job = 1
    /\ solver.requests = 2 /\ solver.reply = "ERROR"
    /\ solver.progress = MaxProgress

C19_TickFailureKeepsLoop ==
    [][\A t \in LoopIds :
         loops[t].pc \in {"read", "apply", "write", "work"} => LoopAlive(t)']_vars

\* C20: every background thread observes cancellation within one iteration:
\* once stop() has cleared the running flag, a thread that evaluates its loop
\* condition does not begin another iteration (here: the exposure thread does
\* not go on to another progress report and sleep).
C20_LoopsObserveStop ==
    [][\A t \in ExpIds :
         (~running /\ lifecycle # "new" /\ exps[t].pc = "loop")
           => exps'[t].pc # "sleep"]_vars

C22_DisabledRelaxesToAmbient ==
    [][\A t \in LoopIds :
         (loops[t].pc = "apply" /\ loops'[t].pc = "write" /\ ~loops[t].en)
           => LET gap == AmbientTemp - sensor_temp
              IN  /\ cooler_power' = 0
                  /\ IF Abs(gap) > TempTolerance
                       THEN /\ sensor_temp' = sensor_temp + TruncDiv(gap * RelaxPercent, 100)
                            /\ Sign(AmbientTemp - sensor_temp') = Sign(gap)
                            /\ Abs(AmbientTemp - sensor_temp') <= Abs(gap)
                            /\ Abs(gap) >= 20 => Abs(AmbientTemp - sensor_temp') < Abs(gap)
                       ELSE sensor_temp' = sensor_temp]_vars

\* a tick with the cooler off has moved a sensor that was cooled well below the
\* ambient, and the power is 0
C22_Witness ==
    /\ \E t \in LoopIds : loops[t].pc = "write" /\ ~loops[t].en
    /\ ~cooler_enabled
    /\ cooler_power = 0
    /\ sensor_temp < AmbientTemp - 100
    /\ coolProps.sensor_temperature < sensor_temp

\* C23: while the cooler is enabled, cooler_power is a non-decreasing function
\* of the absolute gap between sensor and target (no smaller gap gets more power
\* than the gap of this tick), and the tick moves the sensor toward the target
\* by cooler_power hundredths of a degree without crossing the target.
C23_PowerMonotoneNoOvershoot ==
    [][\A t \in LoopIds :
         (loops[t].pc = "apply" /\ loops'[t].pc = "write" /\ loops[t].en)
           => LET gap == loops[t].temp_diff
              IN  /\ \A g \in 0..Abs(gap) : DrivePower(g) <= cooler_power'
                  /\ Abs(sensor_temp' - sensor_temp) <= Abs(gap)
                  /\ Abs(gap) > TempTolerance
                       => sensor_temp' = sensor_temp + Sign(gap) * cooler_power']_vars

\* C24: an abort_exposure that finds no exposure in progress gives ERROR, emits
\* no EXPOSURE_ABORTED and changes no state; a GET_IMAGE that finds image_ready
\* false or no image data gives ERROR and changes no state.
C24_IdleAbortAndEarlyGetImageRejected ==
    [][/\ (cmd.pc = "ab_lock" /\ cmd'.pc # "ab_lock" /\ ~is_exposing)
           => /\ response' = "ERROR"
              /\ cmd' = [pc |-> "idle", arg |-> 0, ret |-> "False"]
              /\ UNCHANGED <<lifeVars, loops, expVars, exposure_lock, coolVars>>
       /\ (HandleGetImage /\ (~image_ready \/ ~image_data))
           => /\ response' = "ERROR"
              /\ UNCHANGED <<lifeVars, loops, expVars, exposure_lock, coolVars>>]_vars

\* GET_IMAGE has been refused although image data of an earlier exposure exists:
\* a new exposure has cleared image_ready
C24_Witness ==
    /\ cmd = [pc |-> "idle", arg |-> 0, ret |-> "handled"]
    /\ response = "ERROR"
    /\ image_data /\ ~image_ready /\ is_exposing

\* the place of an event in the sequence of one exposure job
EventRank(name) ==
    CASE name = "EXPOSURE_STARTED" -> 0
      [] name = "EXPOSURE_PROGRESS" -> 1
      [] name = "READING_OUT" -> 2
      [] name = "EXPOSURE_COMPLETE" -> 3
      [] OTHER -> 4

\* C25: the events of one exposure thread come in the order EXPOSURE_STARTED,
\* EXPOSURE_PROGRESS (any number), READING_OUT, EXPOSURE_COMPLETE, so no
\* EXPOSURE_PROGRESS follows READING_OUT; and READING_OUT is emitted only when
\* the progress loop ended because the exposure time had elapsed.
C25_EventOrder ==
    /\ [](\A t \in ExpIds : \A i, j \in 1..Len(exps[t].ev) :
            i < j => /\ EventRank(exps[t].ev[i].name) <= EventRank(exps[t].ev[j].name)
                     /\ EventRank(exps[t].ev[i].name) = EventRank(exps[t].ev[j].name)
                          => exps[t].ev[i].name = "EXPOSURE_PROGRESS")
    /\ [][\A t \in ExpIds :
            (exps[t].pc = "check" /\ exps'[t].pc = "readout") => exps[t].remaining = 0]_vars

\* C26: an auto_dither made while the guider is not in state GUIDING is not
\* applied: it leaves dither_index as it was and issues no dither call.
C26_DitherOnlyWhileGuiding ==
    [][(guider.state # "GUIDING" /\ Len(guider'.used) > Len(guider.used))
         => /\ guider'.dither_index = guider.dither_index
            /\ guider'.dithered = guider.dithered]_vars

C28_RecordOnlyOnSuccess ==
    [][Solver_GetSolutionAsDict
         => LET sol == solver.lastSolution
                good == sol.exists /\ sol.hasSuccess /\ sol.success
            IN  /\ solver'.asDict.populated <=> good
                /\ good => /\ solver'.asDict.ra_hours = sol.ra
                           /\ solver'.asDict.stars_detected = sol.starCount
                /\ ~good => solver'.asDict = NoDict]_vars

\* the record of a successful second job has been returned
C28_Witness ==
    /\ solver.state = "SUCCESS" /\ solver.job = 2
    /\ solver.asDict.populated
    /\ solver.asDict.stars_detected = 40

\* C29: no command handler of the camera waits for a background thread: a
\* start_exposure or abort_exposure is never held at the exposure lock while
\* stop() keeps that lock for its join of the exposure thread.
C29_HandlersNeverWait ==
    ~(/\ cmd.pc \in {"se_lock", "ab_lock"}
      /\ exposure_lock = "life"
      /\ lpc = "stop_join_exp")

\* C30: image_ready and is_exposing are never both true.
C30_ReadyExcludesExposing == ~(image_ready /\ is_exposing)

\* C31: a start() that follows a finished stop(), also one whose join of the
\* background loop timed out, leaves at most one instance of the loop alive.
C31_OneLoopAfterRestart ==
    [][(Start /\ lifecycle = "stopped" /\ joinTimedOut)
         => Cardinality({t \in LoopIds : loops'[t].pc \notin {"none", "done"}}) <= 1]_vars

\* C32: no exposure has its EXPOSURE_ABORTED emitted before its
\* EXPOSURE_STARTED.
C32_StartedBeforeAborted ==
    \A t \in ExpIds : ~(exps[t].abortedFirst /\ HasEvent(t, "EXPOSURE_STARTED"))

\* the steps of a start_exposure or abort_exposure that holds exposure_lock
LockHolderStep ==
    \/ StartExposure_ClearReady
    \/ StartExposure_Spawn
    \/ AbortExposure_Clear
    \/ AbortExposure_Event

\* nobody waits in a cycle: wherever stop() or a command stands, it can take
\* its next step, or the holder of the lock it waits for can take its own
NoWaitCycle ==
    /\ lpc = "stop_join_exp" => ENABLED Stop_JoinExposure
    /\ lpc \in {"stop_guard", "stop_fin"} => ENABLED (Stop_Guard \/ Stop_Finish)
    /\ lpc = "stop_lock" =>
          \/ ENABLED Stop_Lock
          \/ exposure_lock = "cmd" /\ ENABLED LockHolderStep
    /\ cmd.pc \in {"se_lock", "ab_lock"} =>
          \/ ENABLED (StartExposure_Check \/ AbortExposure_Check)
          \/ exposure_lock = "life" /\ ENABLED Stop_JoinExposure
          \/ FreeExps = {} /\ \E t \in ExpIds : ENABLED ExpStep(t)  \* MaxExp threads at most
    /\ \A t \in ExpIds : ExpAlive(t) => ENABLED ExpStep(t)

C34_FailedStartLeavesNoThread ==
    [][(Start /\ startResult' = "false")
         => \A t \in LoopIds : loops'[t].pc \notin {"none", "done"} => LoopAlive(t)]_vars

\* C35: image_ready implies that image data is present; GET_IMAGE answers
\* SUCCESS only with image_ready true and image data present; and while an
\* accepted exposure is in progress GET_IMAGE answers ERROR.
C35_GetImageOnlyWhenReady ==
    /\ [](image_ready => image_data)
    /\ [][(HandleGetImage /\ response' = "SUCCESS") => (image_ready /\ image_data)]_vars
    /\ [][(HandleGetImage /\ is_exposing) => response' = "ERROR"]_vars

\* C36: open_observatory is executed only if the pre-observation checks found
\* the weather safe: it is never executed after is_safe_for_observing()
\* returned false in them.
C36_OpensOnlyInSafeWeather == obs.opened => obs.found # "unsafe"

\* C37: an emergency_shutdown that has ended has attempted the protective
\* action of every device present, whether or not an earlier action raised.
C37_ShutdownAttemptsEveryAction ==
    \A who \in {"main", "monitor"} :
        obs.shutdown[who].finished
          => obs.shutdown[who].attempted
               = {ShutdownOrder[i] : i \in 1..Len(ShutdownOrder)} \cap obs.devices

\* C38: after cleanup() has returned the weather monitor thread enters no call
\* into a device.
C38_NoDeviceCallAfterCleanup ==
    [][obs.main = "returned" => ~Mon_EnterCall]_vars

\* C39: the validator reports overall success (overall_status 'success',
\* run_validation True, exit code 0) only if every validation step succeeded:
\* file structure, test content, CMake and XMake configuration, a build and a
\* test execution.
C39_SuccessOnlyIfEveryStepSucceeded ==
    (\/ testValidator.overall_status = "success"
     \/ testValidator.returned = "True"
     \/ testValidator.exit_code = 0)
      => /\ testValidator.file_structure_ok
         /\ testValidator.test_content_ok
         /\ testValidator.cmake_config_ok
         /\ testValidator.xmake_config_ok
         /\ testValidator.build_checks # {}
         /\ testValidator.test_execution # {}

\* ------------------------------------------------------------ specifications
Stop ==
    \/ Stop_Begin
    \/ Stop_Guard
    \/ Stop_Join
    \/ Stop_Lock
    \/ Stop_JoinExposure
    \/ Stop_Finish

StartExposure ==
    \/ StartExposure_Check
    \/ StartExposure_ClearReady
    \/ StartExposure_Spawn

AbortExposure ==
    \/ Cmd_AbortExposure
    \/ AbortExposure_Check
    \/ AbortExposure_Clear
    \/ AbortExposure_Event

\* Lifecycle of each device: start(), stop(), the background loop, and for the
\* camera exposures requested one at a time.
Life_StartExposure == Cmd_StartExposure /\ \A t \in ExpIds : ~ExpAlive(t)

Next ==
    \/ Start
    \/ Stop
    \/ Life_StartExposure
    \/ StartExposure
    \/ \E t \in LoopIds : LoopStep(t)
    \/ \E t \in ExpIds : ExpStep(t)

Spec == Init /\ [][Next]_vars

\* The camera's exposure commands against its exposure threads.
InitExposure == Init /\ device = "camera"

NextExposure ==
    \/ Cmd_StartExposure
    \/ StartExposure
    \/ AbortExposure
    \/ \E t \in ExpIds : ExpStep(t)

SpecExposure == InitExposure /\ [][NextExposure]_vars

\* The camera's cooling: a camera started once, SET_COOLER commands, update_loop.
StartOnce == lifecycle = "new" /\ Start

NextCooling ==
    \/ StartOnce
    \/ Cmd_SetCooler
    \/ SetCooler_Target
    \/ SetCooler_Publish
    \/ \E t \in LoopIds : UpdateLoop(t)

SpecCooling == InitExposure /\ [][NextCooling]_vars

\* The cooling scenario: a fresh camera, one set_cooler(True, -10.0), update_loop.
NextScenario ==
    \/ StartOnce
    \/ Cmd_CoolToTarget
    \/ SetCooler_Target
    \/ SetCooler_Publish
    \/ \E t \in LoopIds : UpdateLoop(t)

SpecScenario == InitExposure /\ [][NextScenario]_vars

\* The camera's exposure commands and GET_IMAGE against its exposure threads.
NextRequests ==
    \/ Cmd_StartExposure
    \/ StartExposure
    \/ AbortExposure
    \/ HandleGetImage
    \/ \E t \in ExpIds : ExpStep(t)

SpecRequests == InitExposure /\ [][NextRequests]_vars

\* One stop() of a camera whose update loop is not running, called while
\* exposure commands arrive.
StopOnce == lifecycle = "new" /\ Stop_Begin

NextStopping ==
    \/ StopOnce
    \/ Stop_Guard
    \/ Stop_Lock
    \/ Stop_JoinExposure
    \/ Stop_Finish
    \/ Cmd_StartExposure
    \/ StartExposure
    \/ AbortExposure
    \/ \E t \in ExpIds : ExpStep(t)

SpecStopping == InitExposure /\ [][NextStopping]_vars

\* One stop() of the camera against exposures requested one at a time and
\* aborts, for as long as stop() has not returned, with the scheduling the code
\* relies on: a thread that can run does run (stop(), the command in progress,
\* each exposure thread), and a stop() that waits for exposure_lock gets it at
\* one of its releases.
Request_StartExposure == lifecycle # "stopped" /\ Life_StartExposure
Request_AbortExposure == lifecycle # "stopped" /\ Cmd_AbortExposure

NextStopFair ==
    \/ StopOnce
    \/ Stop_Guard
    \/ Stop_Lock
    \/ Stop_JoinExposure
    \/ Stop_Finish
    \/ Request_StartExposure
    \/ StartExposure
    \/ Request_AbortExposure
    \/ AbortExposure_Check
    \/ AbortExposure_Clear
    \/ AbortExposure_Event
    \/ \E t \in ExpIds : ExpStep(t)

SpecStopFair ==
    /\ InitExposure
    /\ [][NextStopFair]_vars
    /\ WF_vars(Stop_Guard \/ Stop_JoinExposure \/ Stop_Finish)
    /\ SF_vars(Stop_Lock)
    /\ WF_vars(LockHolderStep)
    /\ \A t \in ExpIds : WF_vars(ExpStep(t))

\* The camera's update loop running beside its exposure commands and threads.
NextCamera ==
    \/ StartOnce
    \/ Cmd_StartExposure
    \/ StartExposure
    \/ AbortExposure
    \/ \E t \in ExpIds : ExpStep(t)
    \/ \E t \in LoopIds : UpdateLoop(t)

SpecCamera == InitExposure /\ [][NextCamera]_vars

\* The guider: auto_dither calls, the calibration and its monitor thread.
InitGuider == Init /\ device = "camera"

NextGuider ==
    \/ Guider_AutoDither
    \/ Guider_AutoCalibrate
    \/ Guider_CalibrationEnds
    \/ Guider_MonitorWake
    \/ Guider_MonitorPoll

SpecGuider == InitGuider /\ [][NextGuider]_vars

\* The movement devices: moves, ticks and aborts; each behaviour is about one
\* device (devices share no state).
OnlyMover(k) == \A j \in MoverKinds \ {k} : mover[j].reply = "none"

NextMovement ==
    \/ \E k \in MoverKinds, target \in Positions : OnlyMover(k) /\ Mover_Move(k, target)
    \/ \E k \in MoverKinds : Mover_Tick(k)
    \/ \E k \in MoverKinds : Mover_Abort(k)

InitMovement == Init /\ device = "filterwheel"

SpecMovement == InitMovement /\ [][NextMovement]_vars

\* The plate solver: solve requests at any time, progress, and the end of a job.
NextSolver ==
    \/ Solver_Solve
    \/ Solver_Poll
    \/ Solver_Progress
    \/ Solver_Finish
    \/ Solver_GetSolutionAsDict

SpecSolver == InitGuider /\ [][NextSolver]_vars

\* The validators, called with every combination of the test's numbers.
NextValidator ==
    \/ Validator_Range
    \/ Validator_Positive
    \/ Validator_NonNegative

SpecValidator == InitGuider /\ [][NextValidator]_vars

\* The command handlers of the camera, the telescope and the switch, with
\* well-formed and malformed parameters.
NextHandlers ==
    \/ Cmd_StartExposure
    \/ StartExposure
    \/ \E t \in ExpIds : ExpStep(t)
    \/ Cmd_SetCooler
    \/ Cmd_SetCoolerInvalid
    \/ HandleSetCooler_NoEnabled
    \/ SetCooler_Target
    \/ SetCooler_Publish
    \/ HandleGetImage
    \/ HandleGetTemp
    \/ Cmd_SetTemp
    \/ Cmd_CustomCommand
    \/ Cmd_CalculateField

SpecHandlers == Init /\ [][NextHandlers]_vars

\* The observatory demonstration: run_observatory on the main thread, the
\* weather monitor thread, and the weather.
NextObservatory ==
    \/ Run_Initialize
    \/ Run_StartMonitoring
    \/ Weather_Change
    \/ Seq_PreChecks
    \/ Seq_Open
    \/ Seq_Imaging
    \/ \E who \in {"main", "monitor"} : EmergencyShutdown_Step(who)
    \/ Mon_Check
    \/ Mon_EnterCall
    \/ Mon_Refresh
    \/ Mon_IsSafe
    \/ Mon_Wake
    \/ Cleanup_Begin
    \/ Cleanup_Join
    \/ Cleanup_StopDevices

SpecObservatory == InitGuider /\ [][NextObservatory]_vars

\* One run of the lifecycle-test validator over every outcome of its steps.
NextLifecycleTests ==
    \/ Validate_FileStructure
    \/ Validate_TestContent
    \/ Validate_CMakeConfiguration
    \/ Validate_XMakeConfiguration
    \/ Try_CMakeBuild
    \/ Try_XMakeBuild
    \/ Try_TestExecution
    \/ Generate_Report

SpecLifecycleTests == InitGuider /\ [][NextLifecycleTests]_vars

====
